---------------------------- MODULE Spec2Model ----------------------------
(***************************************************************************)
(* A model of the Vault password-hashing microservice: the Service         *)
(* (vaultService over bcrypt), the go-kit endpoints built from a Service,  *)
(* the Endpoints aggregate, the HTTP/JSON and gRPC transports with their   *)
(* encode/decode functions, the gRPC client, the token-bucket limiter and  *)
(* the process start-up in main.                                           *)
(*                                                                         *)
(* Go strings (passwords, hashes) are sequences of characters; error       *)
(* messages and the Err fields are TLA+ strings.  A Go interface{} value   *)
(* is a record carrying its dynamic type in the field "type", so that a    *)
(* type assertion x.(T) is a test of that field and panics on a mismatch.  *)
(* Passwords are taken to be valid UTF-8 text.                             *)
(***************************************************************************)
EXTENDS Naturals, Sequences, FiniteSets

(***************************************************************************)
(* Bounds of the model.                                                    *)
(***************************************************************************)
\* bcrypt reads at most this many bytes of a password (72 in the library).
BcryptMaxLen == 1
\* Capacity of the limiter's token bucket, and how often it is refilled.
BucketCapacity == 2
MaxRefills == 2
\* Requests the two servers answer before the model stops counting them.
MaxServed == 2

Callers == {"c1", "c2"}
Salts == {"s1", "s2"}
Passwords == {<<"a">>, <<"b">>, <<"a", "b">>}
\* Strings a client may send as a hash that no Hash call produced.
Garbage == {<<"a">>}

(***************************************************************************)
(* Go values.                                                              *)
(***************************************************************************)
\* The nil error and an error value with message m.
NoError == [isNil |-> TRUE, msg |-> ""]

Error(m) == [isNil |-> FALSE, msg |-> m]

\* The nil interface{} value.
Nil == [type |-> "nil"]

\* What a Go function returns: (value, error), or a panic.
Ret(v, e) == [val |-> v, err |-> e, panic |-> FALSE]

Panic == [val |-> Nil, err |-> NoError, panic |-> TRUE]

hashRequest(password) == [type |-> "hashRequest", Password |-> password]

hashResponse(hash, err) == [type |-> "hashResponse", Hash |-> hash, Err |-> err]

validateRequest(password, hash) ==
    [type |-> "validateRequest", Password |-> password, Hash |-> hash]

validateResponse(valid, err) ==
    [type |-> "validateResponse", Valid |-> valid, Err |-> err]

(***************************************************************************)
(* bcrypt, as vaultService uses it.  A hash string is the version prefix,  *)
(* the salt and the digest; the digest of an ideal one-way function is     *)
(* determined by the salt and the bytes of the password bcrypt reads.      *)
(* Builds differ on hashing a password longer than BcryptMaxLen: the       *)
(* library either rejects it (rejectsLong) or reads only its first         *)
(* BcryptMaxLen bytes.  Comparing reads the first BcryptMaxLen bytes in    *)
(* every build.                                                            *)
(***************************************************************************)
Truncate(password) ==
    IF Len(password) > BcryptMaxLen THEN SubSeq(password, 1, BcryptMaxLen)
    ELSE password

MkHash(salt, password) == <<"$2a", salt>> \o Truncate(password)

GenerateFromPassword(password, salt, rejectsLong) ==
    IF rejectsLong /\ Len(password) > BcryptMaxLen
    THEN Ret(<<>>, Error("bcrypt: password length exceeds 72 bytes"))
    ELSE Ret(MkHash(salt, password), NoError)

CompareHashAndPassword(hash, password) ==
    IF Len(hash) < 2 THEN Error("crypto/bcrypt: hashedSecret too short to be a bcrypted password")
    ELSE IF hash[1] # "$2a" THEN Error("crypto/bcrypt: bcrypt hashes must start with '$'")
    ELSE IF MkHash(hash[2], password) = hash THEN NoError
    ELSE Error("crypto/bcrypt: hashedPassword is not the hash of the given password")

(***************************************************************************)
(* The Service: vaultService, or another implementation of the interface   *)
(* (a stub programmed with what its two methods return).                   *)
(***************************************************************************)
vaultServiceHash(password, salt, rejectsLong) ==
    LET r == GenerateFromPassword(password, salt, rejectsLong)
    IN  IF ~r.err.isNil THEN Ret(<<>>, r.err)
        ELSE Ret(r.val, NoError)

\* vaultServiceValidate, had it returned bcrypt's error to its caller.
vaultServiceValidateReturningErr(password, hash) ==
    LET err == CompareHashAndPassword(hash, password)
    IN  IF ~err.isNil THEN Ret(FALSE, err)
        ELSE Ret(TRUE, NoError)

vaultServiceValidate(password, hash) ==
    LET err == CompareHashAndPassword(hash, password)
    IN  IF ~err.isNil THEN Ret(FALSE, NoError)
        ELSE Ret(TRUE, NoError)

NewService(rejectsLong) == [kind |-> "vault", rejectsLong |-> rejectsLong]

\* Service implementations other than vaultService: what Hash and Validate return.
Stubs ==
    { [kind |-> "stub", hashOut |-> Ret(<<>>, Error("boom")),
                        validateOut |-> Ret(FALSE, Error("boom"))],
      [kind |-> "stub", hashOut |-> Ret(<<"p">>, Error("boom")),
                        validateOut |-> Ret(TRUE, Error("boom"))],
      [kind |-> "stub", hashOut |-> Ret(<<>>, Error("")),
                        validateOut |-> Ret(FALSE, Error(""))] }

\* srv.Hash(ctx, password) and srv.Validate(ctx, password, hash) through the interface.
ServiceHash(s, password, salt) ==
    IF s.kind = "vault" THEN vaultServiceHash(password, salt, s.rejectsLong)
    ELSE s.hashOut

ServiceValidate(s, password, hash) ==
    IF s.kind = "vault" THEN vaultServiceValidate(password, hash)
    ELSE s.validateOut

(***************************************************************************)
(* JSON, as encoding/json reads and writes the request and response        *)
(* structs.  A document is well formed or not; a well-formed one is an     *)
(* object whose members are strings, booleans or numbers.                  *)
(***************************************************************************)
JSONString(str) == [kind |-> "string", s |-> str, b |-> FALSE]

JSONBool(bool) == [kind |-> "bool", s |-> <<>>, b |-> bool]

JSONNumber == [kind |-> "number", s |-> <<>>, b |-> FALSE]

JSONObject(m) == [syntax |-> TRUE, members |-> m]

JSONMalformed == [syntax |-> FALSE, members |-> [x \in {} |-> JSONNumber]]

\* Decode of one struct field tagged json:"name": a member that is absent leaves
\* the zero value, a member that is no string is an UnmarshalTypeError.
UnmarshalString(doc, name) ==
    IF name \notin DOMAIN doc.members THEN Ret(<<>>, NoError)
    ELSE IF doc.members[name].kind = "string" THEN Ret(doc.members[name].s, NoError)
    ELSE Ret(<<>>, Error("json: cannot unmarshal into Go struct field of type string"))

\* decodeHashRequest, had it dropped the decoder's error.
decodeHashRequestIgnoringErr(body) ==
    IF ~body.syntax THEN Ret(hashRequest(<<>>), NoError)
    ELSE Ret(hashRequest(UnmarshalString(body, "password").val), NoError)

decodeHashRequest(body) ==
    IF ~body.syntax THEN Ret(Nil, Error("invalid character looking for beginning of value"))
    ELSE LET p == UnmarshalString(body, "password")
         IN  IF ~p.err.isNil THEN Ret(Nil, p.err)
             ELSE Ret(hashRequest(p.val), NoError)

\* decodeValidateRequest, had it returned &req.
decodeValidateRequestPointer(body) ==
    IF ~body.syntax THEN Ret(Nil, Error("invalid character looking for beginning of value"))
    ELSE LET p == UnmarshalString(body, "password")
             h == UnmarshalString(body, "hash")
         IN  IF ~p.err.isNil THEN Ret(Nil, p.err)
             ELSE IF ~h.err.isNil THEN Ret(Nil, h.err)
             ELSE Ret([type |-> "*validateRequest", Password |-> p.val, Hash |-> h.val],
                      NoError)

decodeValidateRequest(body) ==
    IF ~body.syntax THEN Ret(Nil, Error("invalid character looking for beginning of value"))
    ELSE LET p == UnmarshalString(body, "password")
             h == UnmarshalString(body, "hash")
         IN  IF ~p.err.isNil THEN Ret(Nil, p.err)
             ELSE IF ~h.err.isNil THEN Ret(Nil, h.err)
             ELSE Ret(validateRequest(p.val, h.val), NoError)

\* json.NewEncoder(w).Encode(response): the struct's tagged fields, err omitted when empty.
encodeResponse(response) ==
    IF response.type = "hashResponse"
    THEN IF response.Err = ""
         THEN Ret(JSONObject([hash |-> JSONString(response.Hash)]), NoError)
         ELSE Ret(JSONObject([hash |-> JSONString(response.Hash),
                              err |-> JSONString(<<response.Err>>)]), NoError)
    ELSE IF response.type = "validateResponse"
    THEN IF response.Err = ""
         THEN Ret(JSONObject([valid |-> JSONBool(response.Valid)]), NoError)
         ELSE Ret(JSONObject([valid |-> JSONBool(response.Valid),
                              err |-> JSONString(<<response.Err>>)]), NoError)
    ELSE Ret(JSONObject([x \in {} |-> JSONNumber]), NoError)

(***************************************************************************)
(* Endpoints made from a Service.  An endpoint returns (response, error)   *)
(* or panics; svc records what the service returned to it, NoCall when it  *)
(* never called the service.                                               *)
(***************************************************************************)
NoCall == [called |-> FALSE, val |-> Nil, err |-> NoError]

Called(r) == [called |-> TRUE, val |-> r.val, err |-> r.err]

EpRet(v, e, c) == [val |-> v, err |-> e, panic |-> FALSE, svc |-> c]

EpPanic == [val |-> Nil, err |-> NoError, panic |-> TRUE, svc |-> NoCall]

\* MakeHashEndpoint, had it kept the password in a variable the calls share.
MakeHashEndpointSharedPassword(srv, request, salt) ==
    IF request.type # "hashRequest" THEN EpPanic
    ELSE LET r == ServiceHash(srv, <<"a">>, salt)
         IN  IF ~r.err.isNil
             THEN EpRet(hashResponse(r.val, r.err.msg), NoError, Called(r))
             ELSE EpRet(hashResponse(r.val, ""), NoError, Called(r))

MakeHashEndpoint(srv, request, salt) ==
    IF request.type # "hashRequest" THEN EpPanic
    ELSE LET r == ServiceHash(srv, request.Password, salt)
         IN  IF ~r.err.isNil
             THEN EpRet(hashResponse(r.val, r.err.msg), NoError, Called(r))
             ELSE EpRet(hashResponse(r.val, ""), NoError, Called(r))

MakeValidateEndpoint(srv, request) ==
    IF request.type # "validateRequest" THEN EpPanic
    ELSE LET r == ServiceValidate(srv, request.Password, request.Hash)
         IN  IF ~r.err.isNil
             THEN EpRet(validateResponse(FALSE, r.err.msg), NoError, Called(r))
             ELSE EpRet(validateResponse(r.val, ""), NoError, Called(r))

(***************************************************************************)
(* The Endpoints aggregate as a Service: Hash and Validate build the       *)
(* request, call the endpoint, and unwrap what it returned.                *)
(***************************************************************************)
EndpointsHashRequest(password) == hashRequest(password)

EndpointsHashReturn(r) ==
    IF r.panic THEN Panic
    ELSE IF ~r.err.isNil THEN Ret(<<>>, r.err)
    ELSE IF r.val.type # "hashResponse" THEN Panic
    ELSE IF r.val.Err # "" THEN Ret(<<>>, Error(r.val.Err))
    ELSE Ret(r.val.Hash, NoError)

EndpointsValidateRequest(password, hash) == validateRequest(password, hash)

EndpointsValidateReturn(r) ==
    IF r.panic THEN Panic
    ELSE IF ~r.err.isNil THEN Ret(FALSE, r.err)
    ELSE IF r.val.type # "validateResponse" THEN Panic
    ELSE IF r.val.Err # "" THEN Ret(FALSE, Error(r.val.Err))
    ELSE Ret(r.val.Valid, NoError)

(***************************************************************************)
(* The gRPC transport: the functions that translate between the generic    *)
(* request and response values and the pb messages.                        *)
(***************************************************************************)
EncodeGRPCHashRequest(r) ==
    IF r.type # "hashRequest" THEN Panic
    ELSE Ret([type |-> "*pb.HashRequest", Password |-> r.Password], NoError)

DecodeGRPCHashRequest(r) ==
    IF r.type # "*pb.HashRequest" THEN Panic
    ELSE Ret(hashRequest(r.Password), NoError)

EncodeGRPCHashResponse(r) ==
    IF r.type # "hashResponse" THEN Panic
    ELSE Ret([type |-> "*pb.HashResponse", Hash |-> r.Hash, Err |-> r.Err], NoError)

DecodeGRPCHashResponse(r) ==
    IF r.type # "*pb.HashResponse" THEN Panic
    ELSE Ret(hashResponse(r.Hash, r.Err), NoError)

EncodeGRPCValidateRequest(r) ==
    IF r.type # "validateRequest" THEN Panic
    ELSE Ret([type |-> "*pb.ValidateRequest", Password |-> r.Password,
              Hash |-> r.Hash], NoError)

\* DecodeGRPCValidateRequest, had it crossed the two fields.
DecodeGRPCValidateRequestCrossed(r) ==
    IF r.type # "*pb.ValidateRequest" THEN Panic
    ELSE Ret(validateRequest(r.Hash, r.Password), NoError)

DecodeGRPCValidateRequest(r) ==
    IF r.type # "*pb.ValidateRequest" THEN Panic
    ELSE Ret(validateRequest(r.Password, r.Hash), NoError)

EncodeGRPCValidateResponse(r) ==
    IF r.type # "validateResponse" THEN Panic
    ELSE Ret([type |-> "*pb.ValidateResponse", Valid |-> r.Valid], NoError)

\* validateResponse{Valid: res.Valid}: Err is left at its zero value.
DecodeGRPCValidateResponse(r) ==
    IF r.type # "*pb.ValidateResponse" THEN Panic
    ELSE Ret(validateResponse(r.Valid, ""), NoError)

(***************************************************************************)
(* The pb messages on the wire: a message travels as its fields, and the   *)
(* receiver reads them into a fresh message of the type it expects, a      *)
(* field the wire lacks staying at its zero value.                         *)
(***************************************************************************)
PbZero(f) == IF f = "Valid" THEN FALSE ELSE IF f = "Err" THEN "" ELSE <<>>

PbField(wire, f) == IF f \in DOMAIN wire THEN wire[f] ELSE PbZero(f)

ProtoMarshal(m) ==
    IF m.type = "*pb.HashRequest" THEN [Password |-> m.Password]
    ELSE IF m.type = "*pb.HashResponse" THEN [Hash |-> m.Hash, Err |-> m.Err]
    ELSE IF m.type = "*pb.ValidateRequest" THEN [Password |-> m.Password, Hash |-> m.Hash]
    ELSE [Valid |-> m.Valid]

ProtoUnmarshal(wire, T) ==
    IF T = "*pb.HashRequest" THEN [type |-> T, Password |-> PbField(wire, "Password")]
    ELSE IF T = "*pb.HashResponse"
         THEN [type |-> T, Hash |-> PbField(wire, "Hash"), Err |-> PbField(wire, "Err")]
    ELSE IF T = "*pb.ValidateRequest"
         THEN [type |-> T, Password |-> PbField(wire, "Password"),
               Hash |-> PbField(wire, "Hash")]
    ELSE [type |-> T, Valid |-> PbField(wire, "Valid")]

(***************************************************************************)
(* The servers.  A handler decodes the request, calls the endpoint and     *)
(* encodes the response; its result says what went back to the caller      *)
(* (val, err), whether it panicked, and what the endpoint did (invoked,    *)
(* ep).                                                                    *)
(***************************************************************************)
Handled(v, e, inv, r) == [val |-> v, err |-> e, panic |-> FALSE, invoked |-> inv, ep |-> r]

HandlerPanic(inv, r) == [val |-> Nil, err |-> NoError, panic |-> TRUE, invoked |-> inv, ep |-> r]

\* grpctransport.Server.ServeGRPC with the functions NewGRPCServer gives it.
ServeGRPC(d, e, enc) ==
    IF d.panic THEN HandlerPanic(FALSE, EpPanic)
    ELSE IF ~d.err.isNil THEN Handled(Nil, d.err, FALSE, EpPanic)
    ELSE IF e.panic THEN HandlerPanic(TRUE, e)
    ELSE IF ~e.err.isNil THEN Handled(Nil, e.err, TRUE, e)
    ELSE IF enc.panic THEN HandlerPanic(TRUE, e)
    ELSE IF ~enc.err.isNil THEN Handled(Nil, enc.err, TRUE, e)
    ELSE Handled(enc.val, NoError, TRUE, e)

NewGRPCServerHash(srv, r, salt) ==
    LET d == DecodeGRPCHashRequest(r)
        e == MakeHashEndpoint(srv, d.val, salt)
    IN  ServeGRPC(d, e, EncodeGRPCHashResponse(e.val))

NewGRPCServerValidate(srv, r) ==
    LET d == DecodeGRPCValidateRequest(r)
        e == MakeValidateEndpoint(srv, d.val)
    IN  ServeGRPC(d, e, EncodeGRPCValidateResponse(e.val))

grpcServerHash(srv, r, salt) ==
    LET h == NewGRPCServerHash(srv, r, salt)
    IN  IF h.panic THEN h
        ELSE IF ~h.err.isNil THEN Handled(Nil, h.err, h.invoked, h.ep)
        ELSE IF h.val.type # "*pb.HashResponse" THEN HandlerPanic(h.invoked, h.ep)
        ELSE h

grpcServerValidate(srv, r) ==
    LET h == NewGRPCServerValidate(srv, r)
    IN  IF h.panic THEN h
        ELSE IF ~h.err.isNil THEN Handled(Nil, h.err, h.invoked, h.ep)
        ELSE IF h.val.type # "*pb.ValidateResponse" THEN HandlerPanic(h.invoked, h.ep)
        ELSE h

\* httptransport.Server.ServeHTTP with the functions NewHTTPServer gives it: an
\* error of the decoder or of the endpoint goes to the error encoder, which
\* answers with an error status and the error's text, no JSON payload.
ServeHTTP(d, e, enc) ==
    IF d.panic THEN HandlerPanic(FALSE, EpPanic)
    ELSE IF ~d.err.isNil THEN Handled(JSONMalformed, d.err, FALSE, EpPanic)
    ELSE IF e.panic THEN HandlerPanic(TRUE, e)
    ELSE IF ~e.err.isNil THEN Handled(JSONMalformed, e.err, TRUE, e)
    ELSE IF ~enc.err.isNil THEN Handled(JSONMalformed, enc.err, TRUE, e)
    ELSE Handled(enc.val, NoError, TRUE, e)

NewHTTPServerHash(srv, body, salt) ==
    LET d == decodeHashRequest(body)
        e == MakeHashEndpoint(srv, d.val, salt)
    IN  ServeHTTP(d, e, encodeResponse(e.val))

NewHTTPServerValidate(srv, body) ==
    LET d == decodeValidateRequest(body)
        e == MakeValidateEndpoint(srv, d.val)
    IN  ServeHTTP(d, e, encodeResponse(e.val))

\* grpctransport.Client.Endpoint after the call returned: the reply is read into
\* a new message of the reply type New names, and decoded.
NewHashEndpointReply(wire) ==
    LET r == DecodeGRPCHashResponse(ProtoUnmarshal(wire, "*pb.HashResponse"))
    IN  IF r.panic THEN EpPanic ELSE EpRet(r.val, r.err, NoCall)

NewValidateEndpointReply(wire) ==
    LET r == DecodeGRPCValidateResponse(ProtoUnmarshal(wire, "*pb.ValidateResponse"))
    IN  IF r.panic THEN EpPanic ELSE EpRet(r.val, r.err, NoCall)

(***************************************************************************)
(* State.                                                                  *)
(*   srv      the Service the endpoints were made from                     *)
(*   calls    per caller, the call it has in progress or last made         *)
(*   tokens, refills, granted, reached, lim                                *)
(*            the limiter's bucket, how often it was refilled, how many    *)
(*            tokens it ever held, how many calls reached the wrapped      *)
(*            endpoint, and each caller's position in the limited endpoint *)
(*   mainPc, sigG, httpG, grpcG, errChan, proc, served                     *)
(*            main's position, its three goroutines, the senders blocked   *)
(*            on errChan, the process, and the requests answered           *)
(***************************************************************************)
VARIABLES srv, calls, tokens, refills, granted, reached, lim,
          mainPc, sigG, httpG, grpcG, errChan, proc, served

vars == <<srv, calls, tokens, refills, granted, reached, lim,
          mainPc, sigG, httpG, grpcG, errChan, proc, served>>

callVars == <<srv, calls>>

limVars == <<tokens, refills, granted, reached, lim>>

mainVars == <<mainPc, sigG, httpG, grpcG, errChan, proc, served>>

NoOrigin == <<"none">>

Idle ==
    [pc |-> "idle", op |-> "hash", transport |-> "direct", password |-> <<>>,
     hash |-> <<>>, origin |-> NoOrigin, req |-> Nil, h |-> HandlerPanic(FALSE, EpPanic),
     wire |-> Nil, reply |-> EpPanic, out |-> Panic, panicked |-> FALSE]

\* The hash a finished Hash call handed to its caller, if it handed one.
Holds(call) ==
    /\ call.pc = "done"
    /\ call.op = "hash"
    /\ ~call.panicked
    /\ call.out.err.isNil
    /\ IF call.transport = "http"
       THEN "err" \notin DOMAIN call.out.val.members
       ELSE TRUE

HeldHash(call) ==
    IF call.transport = "http" THEN call.out.val.members.hash.s ELSE call.out.val

\* What a caller may send as a hash: one a Hash call returned (with the
\* password it was made from), or a string no Hash call produced.
HashInputs ==
    { <<HeldHash(calls[d]), calls[d].password>> : d \in {x \in Callers : Holds(calls[x])} }
        \cup { <<g, NoOrigin>> : g \in Garbage }

Start(c, op, transport, password, hi, req) ==
    calls' = [calls EXCEPT ![c] =
                [Idle EXCEPT !.pc = "sent", !.op = op, !.transport = transport,
                             !.password = password, !.hash = hi[1], !.origin = hi[2],
                             !.req = req]]

Ready(c) == calls[c].pc \in {"idle", "done"}

(***************************************************************************)
(* A call made on the in-process Endpoints aggregate.                      *)
(***************************************************************************)
EndpointsCall(c) ==
    /\ Ready(c)
    /\ \E password \in Passwords :
         \/ Start(c, "hash", "direct", password, <<(<<>>), NoOrigin>>,
                  EndpointsHashRequest(password))
         \/ \E hi \in HashInputs :
                Start(c, "validate", "direct", password, hi,
                      EndpointsValidateRequest(password, hi[1]))
    /\ UNCHANGED <<srv, limVars, mainVars>>

EndpointServe(c) ==
    /\ calls[c].pc = "sent"
    /\ calls[c].transport = "direct"
    /\ \E salt \in Salts :
         LET e == IF calls[c].op = "hash"
                  THEN MakeHashEndpoint(srv, calls[c].req, salt)
                  ELSE MakeValidateEndpoint(srv, calls[c].req)
         IN  calls' = [calls EXCEPT ![c].pc = "replied",
                                    ![c].h = Handled(e.val, e.err, TRUE, e),
                                    ![c].reply = e,
                                    ![c].panicked = e.panic]
    /\ UNCHANGED <<srv, limVars, mainVars>>

EndpointsReturn(c) ==
    /\ calls[c].pc = "replied"
    /\ calls[c].transport = "direct"
    /\ LET r == IF calls[c].op = "hash" THEN EndpointsHashReturn(calls[c].reply)
                ELSE EndpointsValidateReturn(calls[c].reply)
       IN  calls' = [calls EXCEPT ![c].pc = "done", ![c].out = r,
                                  ![c].panicked = r.panic]
    /\ UNCHANGED <<srv, limVars, mainVars>>

(***************************************************************************)
(* A call made through the gRPC client that New builds.                    *)
(***************************************************************************)
GRPCClientCall(c) ==
    /\ Ready(c)
    /\ \E password \in Passwords :
         \/ LET m == EncodeGRPCHashRequest(EndpointsHashRequest(password))
            IN  IF m.panic
                THEN calls' = [calls EXCEPT ![c] =
                        [Idle EXCEPT !.pc = "done", !.transport = "grpc",
                                     !.password = password, !.panicked = TRUE]]
                ELSE Start(c, "hash", "grpc", password, <<(<<>>), NoOrigin>>,
                           ProtoMarshal(m.val))
         \/ \E hi \in HashInputs :
              LET m == EncodeGRPCValidateRequest(EndpointsValidateRequest(password, hi[1]))
              IN  IF m.panic
                  THEN calls' = [calls EXCEPT ![c] =
                          [Idle EXCEPT !.pc = "done", !.op = "validate",
                                       !.transport = "grpc", !.password = password,
                                       !.panicked = TRUE]]
                  ELSE Start(c, "validate", "grpc", password, hi, ProtoMarshal(m.val))
    /\ UNCHANGED <<srv, limVars, mainVars>>

GRPCServe(c) ==
    /\ calls[c].pc = "sent"
    /\ calls[c].transport = "grpc"
    /\ \E salt \in Salts :
         LET h == IF calls[c].op = "hash"
                  THEN grpcServerHash(srv, ProtoUnmarshal(calls[c].req, "*pb.HashRequest"), salt)
                  ELSE grpcServerValidate(srv, ProtoUnmarshal(calls[c].req, "*pb.ValidateRequest"))
         IN  calls' = [calls EXCEPT ![c].pc = "replied",
                                    ![c].h = h,
                                    ![c].wire = IF h.panic \/ ~h.err.isNil THEN Nil
                                                ELSE ProtoMarshal(h.val),
                                    ![c].panicked = h.panic]
    /\ UNCHANGED <<srv, limVars, mainVars>>

GRPCClientReturn(c) ==
    /\ calls[c].pc = "replied"
    /\ calls[c].transport = "grpc"
    /\ LET failed == calls[c].panicked \/ ~calls[c].h.err.isNil
           e == IF failed
                THEN EpRet(Nil, Error("rpc error"), NoCall)
                ELSE IF calls[c].op = "hash" THEN NewHashEndpointReply(calls[c].wire)
                ELSE NewValidateEndpointReply(calls[c].wire)
           r == IF calls[c].op = "hash" THEN EndpointsHashReturn(e)
                ELSE EndpointsValidateReturn(e)
       IN  calls' = [calls EXCEPT ![c].pc = "done", ![c].reply = e, ![c].out = r,
                                  ![c].panicked = calls[c].panicked \/ e.panic \/ r.panic]
    /\ UNCHANGED <<srv, limVars, mainVars>>

(***************************************************************************)
(* A request sent to /hash or /validate of the HTTP server.                *)
(***************************************************************************)
HashBodies ==
    { JSONObject([password |-> JSONString(p)]) : p \in Passwords }
        \cup { JSONMalformed, JSONObject([password |-> JSONNumber]) }

OddValidateBodies ==
    { JSONMalformed,
      JSONObject([password |-> JSONString(<<"a">>), hash |-> JSONNumber]),
      JSONObject([password |-> JSONString(<<"a">>)]) }

\* The password a body carries, for the caller's own record of what it sent.
Sent(body) ==
    IF body.syntax /\ "password" \in DOMAIN body.members THEN body.members.password.s
    ELSE <<>>

HTTPRequest(c) ==
    /\ Ready(c)
    /\ \/ \E body \in HashBodies :
            Start(c, "hash", "http", Sent(body), <<(<<>>), NoOrigin>>, body)
       \/ \E password \in Passwords, hi \in HashInputs :
            Start(c, "validate", "http", password, hi,
                  JSONObject([password |-> JSONString(password),
                              hash |-> JSONString(hi[1])]))
       \/ \E body \in OddValidateBodies :
            Start(c, "validate", "http", Sent(body), <<(<<>>), NoOrigin>>, body)
    /\ UNCHANGED <<srv, limVars, mainVars>>

\* What the HTTP server writes: status 200 and the encoded response, or the
\* error encoder's status.
HTTPWire(h) ==
    IF h.panic \/ ~h.err.isNil THEN [status |-> 500, body |-> JSONMalformed]
    ELSE [status |-> 200, body |-> h.val]

HTTPServe(c) ==
    /\ calls[c].pc = "sent"
    /\ calls[c].transport = "http"
    /\ \E salt \in Salts :
         LET h == IF calls[c].op = "hash" THEN NewHTTPServerHash(srv, calls[c].req, salt)
                  ELSE NewHTTPServerValidate(srv, calls[c].req)
         IN  calls' = [calls EXCEPT ![c].pc = "replied", ![c].h = h,
                                    ![c].wire = HTTPWire(h), ![c].panicked = h.panic]
    /\ UNCHANGED <<srv, limVars, mainVars>>

HTTPResponse(c) ==
    /\ calls[c].pc = "replied"
    /\ calls[c].transport = "http"
    /\ calls' = [calls EXCEPT ![c].pc = "done",
                   ![c].out = IF calls[c].panicked
                              THEN Ret(JSONMalformed, Error("connection closed"))
                              ELSE IF calls[c].wire.status # 200
                              THEN Ret(JSONMalformed, Error("500 Internal Server Error"))
                              ELSE Ret(calls[c].wire.body, NoError)]
    /\ UNCHANGED <<srv, limVars, mainVars>>

LimIdle == [pc |-> "idle", out |-> Ret(Nil, NoError), invoked |-> FALSE]

Running == [state |-> "running", status |-> 0]

InitRest ==
    /\ calls = [c \in Callers |-> Idle]
    /\ tokens = BucketCapacity
    /\ refills = 0
    /\ granted = BucketCapacity
    /\ reached = 0
    /\ lim = [c \in Callers |-> LimIdle]
    /\ mainPc = "start"
    /\ sigG = "none"
    /\ httpG = "none"
    /\ grpcG = "none"
    /\ errChan = {}
    /\ proc = Running
    /\ served = 0

\* The endpoints are made from any Service: vaultService over either build of
\* bcrypt, or another implementation.
Init ==
    /\ srv \in {NewService(TRUE), NewService(FALSE)} \cup Stubs
    /\ InitRest

Next ==
    \E c \in Callers :
        \/ EndpointsCall(c)
        \/ EndpointServe(c)
        \/ EndpointsReturn(c)
        \/ GRPCClientCall(c)
        \/ GRPCServe(c)
        \/ GRPCClientReturn(c)
        \/ HTTPRequest(c)
        \/ HTTPServe(c)
        \/ HTTPResponse(c)

Spec == Init /\ [][Next]_vars

(***************************************************************************)
(* The token-bucket limiter: an endpoint wrapped by NewTokenBucketLimiter, *)
(* called by several callers at once.  TakeAvailable is atomic (the bucket *)
(* locks); the call of the wrapped endpoint is a later step of the caller. *)
(***************************************************************************)
ErrLimited == Error("rate limit exceeded")

\* tb.TakeAvailable(count): the tokens taken and the tokens left.
TakeAvailable(avail, count) ==
    IF avail < count THEN [taken |-> 0, left |-> avail]
    ELSE [taken |-> count, left |-> avail - count]

\* The limited endpoint, had it called next whatever TakeAvailable returned.
NewTokenBucketLimiterAlwaysNext(taken) ==
    [pc |-> "next", out |-> Ret(Nil, NoError), invoked |-> FALSE]

\* The limited endpoint up to the point where it returns or calls next.
NewTokenBucketLimiter(taken) ==
    IF taken = 0 THEN [pc |-> "limited", out |-> Ret(Nil, ErrLimited), invoked |-> FALSE]
    ELSE [pc |-> "next", out |-> Ret(Nil, NoError), invoked |-> FALSE]

LimitedCall(c) ==
    /\ lim[c].pc = "idle"
    /\ LET tk == TakeAvailable(tokens, 1)
       IN  /\ tokens' = tk.left
           /\ lim' = [lim EXCEPT ![c] = NewTokenBucketLimiter(tk.taken)]
    /\ UNCHANGED <<refills, granted, reached, callVars, mainVars>>

\* return next(ctx, request)
LimitedNext(c) ==
    /\ lim[c].pc = "next"
    /\ reached' = reached + 1
    /\ lim' = [lim EXCEPT ![c] = [pc |-> "returned", out |-> Ret(Nil, NoError),
                                  invoked |-> TRUE]]
    /\ UNCHANGED <<tokens, refills, granted, callVars, mainVars>>

LimitedDone(c) ==
    /\ lim[c].pc \in {"limited", "returned"}
    /\ lim' = [lim EXCEPT ![c] = LimIdle]
    /\ UNCHANGED <<tokens, refills, granted, reached, callVars, mainVars>>

\* The bucket gains a token as time passes, up to its capacity.
Refill ==
    /\ refills < MaxRefills
    /\ refills' = refills + 1
    /\ tokens' = IF tokens < BucketCapacity THEN tokens + 1 ELSE tokens
    /\ granted' = IF tokens < BucketCapacity THEN granted + 1 ELSE granted
    /\ UNCHANGED <<reached, lim, callVars, mainVars>>

NextLimiter ==
    \/ \E c \in Callers : LimitedCall(c) \/ LimitedNext(c) \/ LimitedDone(c)
    \/ Refill

InitLimiter ==
    /\ srv = NewService(FALSE)
    /\ InitRest

SpecLimiter == InitLimiter /\ [][NextLimiter]_vars

(***************************************************************************)
(* The process: main starts three goroutines and returns.  A goroutine     *)
(* that has an error to report sends it on errChan, which is unbuffered,   *)
(* so the send completes only when another goroutine receives.             *)
(***************************************************************************)
Alive == proc.state = "running"

\* go func() { c := make(...); signal.Notify(c, ...); errChan <- fmt.Errorf("%s", <-c) }()
MainGoSignal ==
    /\ Alive /\ mainPc = "start"
    /\ mainPc' = "endpoints"
    /\ sigG' = "start"
    /\ UNCHANGED <<httpG, grpcG, errChan, proc, served, callVars, limVars>>

\* hashEndpoint, validateEndpoint and endpoints are built; go func() { ... ListenAndServe }()
MainGoHTTP ==
    /\ Alive /\ mainPc = "endpoints"
    /\ mainPc' = "grpc"
    /\ httpG' = "start"
    /\ UNCHANGED <<sigG, grpcG, errChan, proc, served, callVars, limVars>>

\* go func() { net.Listen ... gRPCServer.Serve(listener) }()
MainGoGRPC ==
    /\ Alive /\ mainPc = "grpc"
    /\ mainPc' = "end"
    /\ grpcG' = "start"
    /\ UNCHANGED <<sigG, httpG, errChan, proc, served, callVars, limVars>>

\* main reaches its closing brace: the program exits with status 0, and the
\* goroutines end with it.
MainReturn ==
    /\ Alive /\ mainPc = "end"
    /\ mainPc' = "returned"
    /\ proc' = [state |-> "exited", status |-> 0]
    /\ UNCHANGED <<sigG, httpG, grpcG, errChan, served, callVars, limVars>>

SignalNotify ==
    /\ Alive /\ sigG = "start"
    /\ sigG' = "waiting"
    /\ UNCHANGED <<mainPc, httpG, grpcG, errChan, proc, served, callVars, limVars>>

\* SIGINT or SIGTERM arrives: once Notify has registered the channel the
\* goroutine receives it and blocks sending it on errChan; before that the
\* signal's default action ends the process.
Signal ==
    /\ Alive
    /\ IF sigG = "waiting"
       THEN /\ sigG' = "sending"
            /\ errChan' = errChan \cup {"signal"}
            /\ proc' = proc
       ELSE /\ sigG \in {"none", "start"}
            /\ proc' = [state |-> "exited", status |-> 2]
            /\ UNCHANGED <<sigG, errChan>>
    /\ UNCHANGED <<mainPc, httpG, grpcG, served, callVars, limVars>>

HTTPListenAndServe ==
    /\ Alive /\ httpG = "start"
    /\ \/ httpG' = "serving" /\ UNCHANGED errChan
       \/ httpG' = "sending" /\ errChan' = errChan \cup {"http"}
    /\ UNCHANGED <<mainPc, sigG, grpcG, proc, served, callVars, limVars>>

HTTPServeError ==
    /\ Alive /\ httpG = "serving"
    /\ httpG' = "sending"
    /\ errChan' = errChan \cup {"http"}
    /\ UNCHANGED <<mainPc, sigG, grpcG, proc, served, callVars, limVars>>

GRPCListen ==
    /\ Alive /\ grpcG = "start"
    /\ \/ grpcG' = "serving" /\ UNCHANGED errChan
       \/ grpcG' = "sending" /\ errChan' = errChan \cup {"grpc"}
    /\ UNCHANGED <<mainPc, sigG, httpG, proc, served, callVars, limVars>>

GRPCServeError ==
    /\ Alive /\ grpcG = "serving"
    /\ grpcG' = "sending"
    /\ errChan' = errChan \cup {"grpc"}
    /\ UNCHANGED <<mainPc, sigG, httpG, proc, served, callVars, limVars>>

\* A request is answered by a server that is up.
Answer ==
    /\ Alive
    /\ httpG = "serving" \/ grpcG = "serving"
    /\ served < MaxServed
    /\ served' = served + 1
    /\ UNCHANGED <<mainPc, sigG, httpG, grpcG, errChan, proc, callVars, limVars>>

NextMain ==
    \/ MainGoSignal
    \/ MainGoHTTP
    \/ MainGoGRPC
    \/ MainReturn
    \/ SignalNotify
    \/ Signal
    \/ HTTPListenAndServe
    \/ HTTPServeError
    \/ GRPCListen
    \/ GRPCServeError
    \/ Answer

InitMain ==
    /\ srv = NewService(FALSE)
    /\ InitRest

SpecMain == InitMain /\ [][NextMain]_vars

(***************************************************************************)
(* Properties.                                                             *)
(***************************************************************************)
\* A call whose request reached the endpoint, and the endpoint returned.
Answered(call) ==
    /\ call.pc \in {"replied", "done"}
    /\ call.h.invoked
    /\ ~call.h.ep.panic

\* C1: when the service's Hash (Validate) call fails, the endpoint's response
\* has a non-empty Err and its Hash (Valid) at the zero value, and the
\* endpoint's own error is nil.
C1_FailureResponse ==
    \A c \in Callers :
        LET ep == calls[c].h.ep
        IN  (Answered(calls[c]) /\ ep.svc.called /\ ~ep.svc.err.isNil)
                => /\ ep.err.isNil
                   /\ ep.val.Err # ""
                   /\ calls[c].op = "hash" => ep.val.Hash = <<>>
                   /\ calls[c].op = "validate" => ep.val.Valid = FALSE

\* C2: Hash and Validate of the Endpoints aggregate made from srv return the
\* value srv returns, and an error exactly when srv returns one.
C2_EndpointsInterchangeable ==
    \A c \in Callers :
        (calls[c].pc = "done" /\ calls[c].transport = "direct" /\ ~calls[c].panicked)
            => /\ calls[c].out.val = calls[c].h.ep.svc.val
               /\ calls[c].out.err.isNil <=> calls[c].h.ep.svc.err.isNil

\* C3: the generic response the gRPC client hands its caller equals, field for
\* field, the generic response the server-side endpoint produced.
C3_ClientResponseIsServerResponse ==
    \A c \in Callers :
        (calls[c].pc = "done" /\ calls[c].transport = "grpc" /\ ~calls[c].panicked
            /\ calls[c].h.err.isNil)
            => calls[c].reply.val = calls[c].h.ep.val

\* A finished Validate call that reported valid = true and no error.
ValidTrue(call) ==
    /\ ~call.panicked
    /\ IF call.transport = "http"
       THEN /\ call.out.err.isNil
            /\ DOMAIN call.out.val.members = {"valid"}
            /\ call.out.val.members.valid.b
       ELSE call.out = Ret(TRUE, NoError)

\* C4: on vaultService, a hash that a Hash call produced from password p, through
\* whichever transport, validates as true for p through whichever transport.
C4_HashValidates ==
    srv.kind = "vault" =>
        \A c \in Callers :
            (calls[c].pc = "done" /\ calls[c].op = "validate"
                /\ calls[c].origin = calls[c].password)
                => ValidTrue(calls[c])

\* A hash the HTTP server produced, still held by its caller, validated as
\* true through the gRPC client.
C4_Witness ==
    /\ srv.kind = "vault"
    /\ \E c, d \in Callers :
         /\ Holds(calls[d]) /\ calls[d].transport = "http"
         /\ calls[c].pc = "done" /\ calls[c].op = "validate"
         /\ calls[c].transport = "grpc"
         /\ calls[c].hash = HeldHash(calls[d])
         /\ calls[c].password = calls[d].password
         /\ calls[c].out = Ret(TRUE, NoError)

\* The two ways a Validate call's password can fail to be the hashed one.
Malformed(call) == call.origin = NoOrigin

Mismatched(call) == call.origin # NoOrigin /\ call.origin # call.password

MismatchedForBcrypt(call) ==
    call.origin # NoOrigin /\ Truncate(call.origin) # Truncate(call.password)

Undecodable(call) ==
    \/ ~call.req.syntax
    \/ \E m \in DOMAIN call.req.members \cap
                (IF call.op = "hash" THEN {"password"} ELSE {"password", "hash"}) :
          call.req.members[m].kind # "string"

\* C6: for an HTTP body that cannot be decoded, the decoder returns an error and
\* no request, neither the endpoint nor the service is called, and the answer
\* is an error status without a JSON payload.
C6_UndecodableBodyIsTransportError ==
    \A c \in Callers :
        (calls[c].transport = "http" /\ calls[c].pc \in {"replied", "done"}
            /\ Undecodable(calls[c]))
            => LET d == IF calls[c].op = "hash" THEN decodeHashRequest(calls[c].req)
                        ELSE decodeValidateRequest(calls[c].req)
               IN  /\ d.val = Nil /\ ~d.err.isNil
                   /\ ~calls[c].h.invoked
                   /\ ~calls[c].h.ep.svc.called
                   /\ ~calls[c].h.err.isNil
                   /\ calls[c].wire.status # 200
                   /\ ~calls[c].wire.body.syntax

\* Both routes answered a body that is not JSON.
C6_Witness ==
    \E c, d \in Callers :
        /\ calls[c].transport = "http" /\ calls[c].op = "hash" /\ calls[c].pc = "done"
        /\ ~calls[c].req.syntax /\ calls[c].wire.status = 500
        /\ calls[d].transport = "http" /\ calls[d].op = "validate" /\ calls[d].pc = "done"
        /\ ~calls[d].req.syntax /\ calls[d].wire.status = 500

\* One of the three events has happened: a server or the gRPC listener
\* returned an error, or SIGINT/SIGTERM arrived.
EventOccurred == errChan # {} \/ proc.status = 2

\* C7: the process does not exit before the first of the three events, and
\* when it exits its status is not zero.
C7_ExitsOnlyAfterEvent ==
    proc.state = "exited" => (proc.status # 0 /\ EventOccurred)

\* C8: a limited call takes one token or, finding none, returns ErrLimited
\* without calling the wrapped endpoint: every token the bucket ever held is
\* still in it, or was taken by a caller about to call the wrapped endpoint,
\* or by a call that reached it.
C8_ReachedWithinTokens ==
    /\ reached + Cardinality({c \in Callers : lim[c].pc = "next"}) + tokens = granted
    /\ reached <= granted
    /\ \A c \in Callers :
         lim[c].pc = "limited" => (lim[c].out = Ret(Nil, ErrLimited) /\ ~lim[c].invoked)

\* The bucket is empty, every token was spent on a call that reached the
\* wrapped endpoint, and a caller has just been refused.
C8_Witness ==
    /\ tokens = 0
    /\ reached = granted
    /\ \E c \in Callers : lim[c].pc = "limited"

\* hash is a bcrypt hash of password.
IsHashOf(hash, password) == \E s \in Salts : hash = MkHash(s, password)

\* What a finished Validate call told its caller.
ReportedValid(call) ==
    IF call.transport = "http" THEN call.out.val.members.valid.b ELSE call.out.val

C9_OwnInputs ==
    srv.kind = "vault" =>
        \A c \in Callers :
            /\ Holds(calls[c]) => IsHashOf(HeldHash(calls[c]), calls[c].password)
            /\ (calls[c].pc = "done" /\ calls[c].op = "validate" /\ ~calls[c].panicked
                    /\ calls[c].out.err.isNil)
                  => ReportedValid(calls[c]) = IsHashOf(calls[c].hash, calls[c].password)

C9_Frame ==
    /\ srv' = srv
    /\ \A c, d \in Callers :
         (c # d /\ calls'[c] # calls[c]) => calls'[d] = calls[d]

\* C9: under every interleaving of the callers' steps, a call's result is
\* decided by its own inputs (a Hash call returns a hash of its own password, a
\* Validate call says whether its own hash is a hash of its own password), no
\* step of one call changes another call, and no call writes the service.
C9_NoInterference == [](C9_OwnInputs) /\ [][C9_Frame]_vars

\* Two Hash calls for different passwords, over different transports, are in
\* flight at once, each answered with a hash of its own password.
C9_Witness ==
    /\ srv.kind = "vault"
    /\ \E c, d \in Callers :
         /\ calls[c].pc = "replied" /\ calls[d].pc = "replied"
         /\ calls[c].op = "hash" /\ calls[d].op = "hash"
         /\ calls[c].transport = "http" /\ calls[d].transport = "grpc"
         /\ calls[c].password # calls[d].password
         /\ Answered(calls[c]) /\ Answered(calls[d])
         /\ IsHashOf(calls[c].h.ep.val.Hash, calls[c].password)
         /\ IsHashOf(calls[d].h.ep.val.Hash, calls[d].password)

\* C10: no type assertion fails on a path the servers and the client wire.
C10_NoAssertionFails == \A c \in Callers : ~calls[c].panicked

\* A Hash call through the gRPC client and a Validate request to the HTTP
\* server both went through every assertion on their paths.
C10_Witness ==
    \E c, d \in Callers :
        /\ calls[c].pc = "done" /\ calls[c].transport = "grpc" /\ calls[c].op = "hash"
        /\ calls[c].out.err.isNil
        /\ calls[d].pc = "done" /\ calls[d].transport = "http" /\ calls[d].op = "validate"
        /\ calls[d].wire.status = 200

=============================================================================
